---- MODULE Spec2Model ----
(***************************************************************************)
(* Plan allocation and recalculation over the year/quarter/month period    *)
(* hierarchy (PlanValueService, PeriodService and the record store they    *)
(* write through).                                                         *)
(*                                                                         *)
(* Money is a Decimal with two fractional digits (Numeric(12, 2)); the     *)
(* model counts it in hundredths, so every value is an integer.            *)
(* A table is the sequence of its rows in insertion order and a row's id   *)
(* is its position: rows are never deleted by the operations modelled, and *)
(* a query without ORDER BY returns rows in that order.                    *)
(***************************************************************************)
EXTENDS Integers, Sequences, FiniteSets, TLC

VARIABLES periods, plans, last, ops, engineOnly, inflight

vars == <<periods, plans, last, ops, engineOnly, inflight>>

(* ------------------------------ bounds -------------------------------- *)

\* Calls per behaviour.
MaxOps == 3

\* Calls per behaviour when the record store may fail.
MaxFailOps == 2

\* Calls per behaviour where the allocation is what is checked.
MaxAllocOps == 2

\* Yearly values handed to distribute_yearly_plan where the allocation is
\* what is checked: 0..MaxYearly hundredths.
MaxYearly == 11

\* Times one of two concurrent distribute_yearly_plan invocations takes over
\* from the other while that one is in the middle of its upserts.
MaxSwitches == 1

\* The largest actual total handed to the budget classification, in steps
\* of 0.50.
MaxBudgetActual == 240

\* The rows POST /plan-values may name as period_id: the first
\* MaxCreatePeriod periods.
MaxCreatePeriod == 2

\* Python's None for an unset quarter, month or lookup result; quarters,
\* months and row ids all start at 1.
None == 0

Metrics == {1, 2}

Shops == {1}

Years == {2024}

YearlyValues == 0..MaxYearly

\* Yearly values where recalculation is what is checked: one the actual
\* values overrun, one that leaves every month a plan above them.
RecalcYearlyValues == {7, 120}

\* Actual values handed to recalculate_plan_with_actual: nothing spent, less
\* than the smaller yearly value, more than it.
ActualValues == {0, 4, 8}

\* Months an actual value is recorded for, and the wall-clock months
\* (datetime.now().month) a recalculation runs in.
ActualMonths == {1, 5, 11, 12}

CurrentMonths == {1, 3}

\* The plan-value writes the record store may fail at.
FailPoints == {1, 2, 6, 17}

\* (quarter, month) requests to the period resolver: a year, a quarter, a
\* month whose quarter is not its calendar quarter, a month without quarter.
PeriodRequests == {<<None, None>>, <<1, None>>, <<2, 1>>, <<None, 3>>}

\* Values of hand-made plan rows.
CreateValues == {5}

(* --------------------------- Decimal helpers -------------------------- *)

\* round(Decimal(c) / n, 2) in hundredths: Decimal rounds half to even.
RoundDiv(c, n) ==
    LET q == c \div n
        r == c - q * n
    IN  IF 2 * r < n THEN q
        ELSE IF 2 * r > n THEN q + 1
        ELSE IF q % 2 = 0 THEN q ELSE q + 1

Min(S) == CHOOSE i \in S : \A j \in S : i <= j

Max(S) == CHOOSE i \in S : \A j \in S : i >= j

RECURSIVE SumOver(_, _)
SumOver(S, f) ==
    IF S = {} THEN 0
    ELSE LET x == Min(S) IN f[x] + SumOver(S \ {x}, f)

(* ------------------------------ periods ------------------------------- *)

\* PeriodService.get_by_year_quarter_month: the exact triple, NULLs included.
GetByYearQuarterMonth(ps, year, quarter, month) ==
    LET S == {i \in 1..Len(ps) : /\ ps[i].year = year
                                  /\ ps[i].quarter = quarter
                                  /\ ps[i].month = month}
    IN  IF S = {} THEN None ELSE Min(S)

\* PeriodService.get_by_params: the ids matching the filter it builds.
GetByParams(ps, year, month, quarter) ==
    {i \in 1..Len(ps) :
        /\ ps[i].year = year
        /\ IF month # None THEN ps[i].month = month
           ELSE IF quarter # None
                THEN ps[i].quarter = quarter /\ ps[i].month = None
                ELSE TRUE}

\* PeriodService.get_by_params_first.
GetByParamsFirst(ps, year, month, quarter) ==
    LET S == GetByParams(ps, year, month, quarter)
    IN  IF S = {} THEN None ELSE Min(S)

\* PeriodBase.validate_quarter / validate_month, run by PeriodCreate(...).
PeriodCreateValid(quarter, month) ==
    /\ quarter # None => quarter \in 1..4
    /\ month # None => (month \in 1..12 /\ quarter # None)

\* A resolver that never looks a period up: it inserts one on every call.
GetOrCreateByParamsAlwaysCreate(ps, year, month, quarter) ==
    IF ~PeriodCreateValid(quarter, month)
    THEN [periods |-> ps, id |-> None, created |-> FALSE, raised |-> TRUE]
    ELSE [periods |-> Append(ps, [year |-> year, quarter |-> quarter,
                                  month |-> month]),
          id |-> Len(ps) + 1, created |-> TRUE, raised |-> FALSE]

\* PeriodService.get_or_create_by_params (get_or_create delegates to it).
\* raised: PeriodCreate rejected the triple; created: a row was inserted.
GetOrCreateByParams(ps, year, month, quarter) ==
    LET found == GetByParamsFirst(ps, year, month, quarter)
    IN  IF found # None
        THEN [periods |-> ps, id |-> found, created |-> FALSE, raised |-> FALSE]
        ELSE IF ~PeriodCreateValid(quarter, month)
        THEN [periods |-> ps, id |-> None, created |-> FALSE, raised |-> TRUE]
        ELSE [periods |-> Append(ps, [year |-> year, quarter |-> quarter,
                                      month |-> month]),
              id |-> Len(ps) + 1, created |-> TRUE, raised |-> FALSE]

(* ----------------------------- plan values ---------------------------- *)

\* PlanValueService.get_by_params: the row of (metric, shop, period), if any.
PlanGetByParams(pl, metric, shop, pid) ==
    LET S == {i \in 1..Len(pl) : /\ pl[i].metric = metric
                                  /\ pl[i].shop = shop
                                  /\ pl[i].period = pid}
    IN  IF S = {} THEN None ELSE Min(S)

\* A plan_values table without the unique constraint: every insert is accepted.
UniqueNotEnforced(pl, metric, shop, pid) == TRUE

\* UniqueConstraint("metric_id", "shop_id", "period_id") of plan_values:
\* TRUE when inserting (metric, shop, pid) is accepted.
UniquePlanMetricShopPeriod(pl, metric, shop, pid) ==
    \A i \in 1..Len(pl) :
        ~(pl[i].metric = metric /\ pl[i].shop = shop /\ pl[i].period = pid)

(* A service call in progress: the tables as committed so far (Database    *)
(* .create and .update commit after every statement), the records the call *)
(* has collected to return, the number of plan-value writes attempted, the *)
(* write the record store fails at (None: the store does not fail) and     *)
(* whether an exception is propagating.                                    *)
Begin(ps, pl, failAt) ==
    [periods |-> ps, plans |-> pl, ret |-> <<>>, writes |-> 0,
     failAt |-> failAt, raised |-> FALSE]

Returned(st, id) ==
    [id |-> id, period |-> st.plans[id].period, value |-> st.plans[id].value]

\* BaseService.create -> Database.create on plan_values: INSERT, commit.
PlanCreate(st, metric, shop, pid, value) ==
    IF st.raised THEN st
    ELSE IF \/ st.writes + 1 = st.failAt
            \/ ~UniquePlanMetricShopPeriod(st.plans, metric, shop, pid)
    THEN [st EXCEPT !.raised = TRUE, !.writes = @ + 1]
    ELSE LET row == [metric |-> metric, shop |-> shop, period |-> pid,
                     value |-> value]
             st2 == [st EXCEPT !.plans = Append(@, row), !.writes = @ + 1]
         IN  [st2 EXCEPT !.ret = Append(@, Returned(st2, Len(st2.plans)))]

\* BaseService.update -> Database.update on plan_values: UPDATE by id, commit.
PlanUpdate(st, id, value) ==
    IF st.raised THEN st
    ELSE IF st.writes + 1 = st.failAt
    THEN [st EXCEPT !.raised = TRUE, !.writes = @ + 1]
    ELSE LET st2 == [st EXCEPT !.plans[id].value = value, !.writes = @ + 1]
         IN  [st2 EXCEPT !.ret = Append(@, Returned(st2, id))]

\* The "update the existing value, else create it" branch that
\* distribute_yearly_plan repeats for the year, each quarter and each month.
PlanUpsert(st, metric, shop, pid, value) ==
    IF st.raised THEN st
    ELSE LET id == PlanGetByParams(st.plans, metric, shop, pid)
         IN  IF id # None THEN PlanUpdate(st, id, value)
             ELSE PlanCreate(st, metric, shop, pid, value)

(* ----------------------- distribute_yearly_plan ----------------------- *)

\* A quarter share that is rounded up instead of to the nearest hundredth.
QuarterlyValueRoundedUp(Y) == (Y + 3) \div 4

\* quarterly_value, and current_value of each quarter (the fourth takes the
\* rounding remainder).
QuarterlyValue(Y) == RoundDiv(Y, 4)

\* An allocation in which no quarter takes the rounding remainder.
QuarterValueNoRemainder(Y, quarter) == QuarterlyValue(Y)

QuarterValue(Y, quarter) ==
    LET quarterly_value == QuarterlyValue(Y)
        remaining == Y - quarterly_value * 4
    IN  IF quarter = 4 THEN quarterly_value + remaining ELSE quarterly_value

\* monthly_value, and current_month_value of month i (0..2) of a quarter
\* whose value is current_value (the third takes the rounding remainder).
MonthlyValue(current_value) == RoundDiv(current_value, 3)

\* An allocation in which no month takes the rounding remainder.
MonthValueNoRemainder(current_value, i) == MonthlyValue(current_value)

MonthValue(current_value, i) ==
    LET monthly_value == MonthlyValue(current_value)
        month_remaining == current_value - monthly_value * 3
    IN  IF i = 2 THEN monthly_value + month_remaining ELSE monthly_value

\* The year period distribute_yearly_plan and recalculate_plan_with_actual
\* work on: the exact Year-kind period, else whatever
\* get_or_create_by_params(year) returns.
YearPeriod(ps, year) ==
    LET exact == GetByYearQuarterMonth(ps, year, None, None)
    IN  IF exact # None
        THEN [periods |-> ps, id |-> exact, created |-> FALSE, raised |-> FALSE]
        ELSE GetOrCreateByParams(ps, year, None, None)

\* The year step: resolve the year period, upsert the yearly value.
DistYear(st, metric, shop, year, Y) ==
    IF st.raised THEN st
    ELSE LET p == YearPeriod(st.periods, year)
         IN  PlanUpsert([st EXCEPT !.periods = p.periods],
                        metric, shop, p.id, Y)

\* One pass of the quarter loop body up to the quarter's own upsert.
DistQuarter(st, metric, shop, year, Y, quarter) ==
    IF st.raised THEN st
    ELSE LET p == GetOrCreateByParams(st.periods, year, None, quarter)
         IN  PlanUpsert([st EXCEPT !.periods = p.periods],
                        metric, shop, p.id, QuarterValue(Y, quarter))

\* One pass of the month loop body: month i (0..2) of the quarter.
DistMonth(st, metric, shop, year, Y, quarter, i) ==
    IF st.raised THEN st
    ELSE LET month == (quarter - 1) * 3 + i + 1
             p == GetOrCreateByParams(st.periods, year, month, quarter)
         IN  PlanUpsert([st EXCEPT !.periods = p.periods],
                        metric, shop, p.id,
                        MonthValue(QuarterValue(Y, quarter), i))

\* A month loop that stops one month short: the last step writes nothing.
DistStepSkipsLastMonth(st, metric, shop, year, Y, s) ==
    IF s = 1 THEN DistYear(st, metric, shop, year, Y)
    ELSE LET k == s - 2
             quarter == (k \div 4) + 1
             j == k % 4
         IN  IF j = 0 THEN DistQuarter(st, metric, shop, year, Y, quarter)
             ELSE IF s = 17 THEN st
             ELSE DistMonth(st, metric, shop, year, Y, quarter, j - 1)

\* Step s of the 17 the function takes, in its order: the year, then for
\* each quarter the quarter and its three months.
DistStep(st, metric, shop, year, Y, s) ==
    IF s = 1 THEN DistYear(st, metric, shop, year, Y)
    ELSE LET k == s - 2
             quarter == (k \div 4) + 1
             j == k % 4
         IN  IF j = 0 THEN DistQuarter(st, metric, shop, year, Y, quarter)
             ELSE DistMonth(st, metric, shop, year, Y, quarter, j - 1)

RECURSIVE DistFrom(_, _, _, _, _, _)
DistFrom(st, metric, shop, year, Y, s) ==
    IF s > 17 THEN st
    ELSE DistFrom(DistStep(st, metric, shop, year, Y, s),
                  metric, shop, year, Y, s + 1)

\* PlanValueService.distribute_yearly_plan, from the tables (ps, pl).
DistributeYearlyPlan(ps, pl, metric, shop, year, Y, failAt) ==
    DistFrom(Begin(ps, pl, failAt), metric, shop, year, Y, 1)


(* -------------------- recalculate_plan_with_actual -------------------- *)

\* month_plans: for each month 1..12 the row id of the plan found for it,
\* None when the dictionary has no entry. The loop over get_by_year(year)
\* overwrites an entry whenever a later period of that month has a plan.
MonthPlans(ps, pl, metric, shop, year) ==
    [k \in 1..12 |->
        LET S == {i \in 1..Len(ps) :
                    /\ ps[i].year = year
                    /\ ps[i].month = k
                    /\ PlanGetByParams(pl, metric, shop, i) # None}
        IN  IF S = {} THEN None
            ELSE PlanGetByParams(pl, metric, shop, Max(S))]

\* quarter_plans: the same for the periods with a quarter and no month.
QuarterPlans(ps, pl, metric, shop, year) ==
    [q \in 1..4 |->
        LET S == {i \in 1..Len(ps) :
                    /\ ps[i].year = year
                    /\ ps[i].month = None
                    /\ ps[i].quarter = q
                    /\ PlanGetByParams(pl, metric, shop, i) # None}
        IN  IF S = {} THEN None
            ELSE PlanGetByParams(pl, metric, shop, Max(S))]

\* future_months = range(max(actual_month + 1, current_month), 13).
FutureMonths(actual_month, current_month) ==
    LET a == actual_month + 1
        lo == IF a > current_month THEN a ELSE current_month
    IN  lo..12

\* diff: actual minus the month's plan (0 without a plan), plus the plans of
\* the months between the actual month and the current month.
RecalcDiff(pl, month_plans, actual_month, actual_value, current_month) ==
    LET base == IF month_plans[actual_month] # None
                THEN actual_value - pl[month_plans[actual_month]].value
                ELSE 0
        past == {k \in (actual_month + 1)..(current_month - 1) :
                    month_plans[k] # None}
        sum_past_plans ==
            SumOver(past, [k \in 1..12 |->
                IF month_plans[k] # None THEN pl[month_plans[k]].value ELSE 0])
    IN  IF actual_month < current_month THEN base + sum_past_plans ELSE base

\* new_value of a future month: its plan less the adjustment, the last
\* future month also less the rounding remainder, never below zero.
FutureValue(old, diff, n, isLast) ==
    LET adjustment_per_month == RoundDiv(diff, n)
        remaining == diff - adjustment_per_month * n
        v1 == old - adjustment_per_month
        v2 == IF isLast THEN v1 - remaining ELSE v1
    IN  IF v2 < 0 THEN 0 ELSE v2

\* The sum a quarter plan is set to: the actual value for the actual month,
\* the plan as read at the start of the call for every other month.
QuarterSum(pl, month_plans, q, actual_month, actual_value) ==
    SumOver({k \in ((q - 1) * 3 + 1)..(q * 3) : month_plans[k] # None},
            [k \in 1..12 |->
                IF k = actual_month THEN actual_value
                ELSE IF month_plans[k] # None THEN pl[month_plans[k]].value
                ELSE 0])

\* The updates the call issues, in order, as <<row id, value>>, computed
\* from the rows as read at the start of the call (pl).
RecalcWrites(pl, month_plans, quarter_plans, year_plan, actual_month, actual_value, current_month) ==
    LET future == FutureMonths(actual_month, current_month)
        n == Cardinality(future)
        diff == RecalcDiff(pl, month_plans, actual_month, actual_value,
                           current_month)
        actualW == IF month_plans[actual_month] # None
                   THEN <<(<<month_plans[actual_month], actual_value>>)>>
                   ELSE <<>>
        monthW == [k \in 1..12 |->
                    IF k \in future /\ month_plans[k] # None
                    THEN <<month_plans[k],
                           FutureValue(pl[month_plans[k]].value, diff, n,
                                       k = 12)>>
                    ELSE <<None, 0>>]
        quarterW == [q \in 1..4 |->
                    IF quarter_plans[q] # None
                    THEN <<quarter_plans[q],
                           QuarterSum(pl, month_plans, q, actual_month,
                                      actual_value)>>
                    ELSE <<None, 0>>]
        sum_quarter_plans ==
            SumOver({q \in 1..4 : quarter_plans[q] # None},
                    [q \in 1..4 |->
                        IF quarter_plans[q] # None
                        THEN pl[quarter_plans[q]].value ELSE 0])
        yearW == IF sum_quarter_plans # pl[year_plan].value
                 THEN <<(<<year_plan, sum_quarter_plans>>)>>
                 ELSE <<>>
        issued(w) == w[1] # None
    IN  IF future = {} THEN actualW
        ELSE actualW \o SelectSeq(monthW, issued)
                     \o SelectSeq(quarterW, issued) \o yearW

RECURSIVE ApplyUpdates(_, _, _)
ApplyUpdates(st, ws, i) ==
    IF i > Len(ws) THEN st
    ELSE ApplyUpdates(PlanUpdate(st, ws[i][1], ws[i][2]), ws, i + 1)

\* PlanValueService.recalculate_plan_with_actual, from the tables (ps, pl);
\* current_month is now.month if now.year == year else 1.
RecalculatePlanWithActual(ps, pl, metric, shop, year, actual_month, actual_value, current_month, failAt) ==
    LET p == YearPeriod(ps, year)
        st == Begin(p.periods, pl, failAt)
        year_plan == PlanGetByParams(pl, metric, shop, p.id)
    IN  IF year_plan = None THEN st
        ELSE ApplyUpdates(
                st,
                RecalcWrites(pl,
                             MonthPlans(p.periods, pl, metric, shop, year),
                             QuarterPlans(p.periods, pl, metric, shop, year),
                             year_plan, actual_month, actual_value,
                             current_month),
                1)


(* ------------------------------ the system ---------------------------- *)

\* last: the most recent call, its arguments and what it gave back.
\* ops: the calls made so far. engineOnly: every call so far was a
\* distribute_yearly_plan or a recalculate_plan_with_actual.
\* inflight: the distribute_yearly_plan invocations that run as concurrent
\* requests (see SpecRace); none elsewhere.
NoCall ==
    [op |-> "none", metric |-> None, shop |-> None, year |-> None,
     quarter |-> None, month |-> None, value |-> 0, current_month |-> None,
     raised |-> FALSE, ret |-> <<>>, pid |-> None, created |-> FALSE,
     repeat |-> FALSE]

\* What the caller gets: the collected records, nothing when the call raised.
Outcome(r) == IF r.raised THEN <<>> ELSE r.ret

\* The call (op, metric, shop, year, quarter, month, value) comes right
\* after a call of the same operation with the same arguments that returned.
Repeats(op, metric, shop, year, quarter, month, value) ==
    /\ ~last.raised
    /\ last.op = op /\ last.metric = metric /\ last.shop = shop
    /\ last.year = year /\ last.quarter = quarter /\ last.month = month
    /\ last.value = value

\* Two requests, neither of which has called distribute_yearly_plan yet.
\* pc: 0 not called, s in 1..17 about to take step s, 18 returned.
\* Y: the yearly value each was called with. running: the invocation that
\* took the latest step. switches: the times a step was taken by one
\* invocation while the other was between its first and last step.
Invocations == {1, 2}

NoInvocations ==
    [pc |-> [i \in Invocations |-> 0], Y |-> [i \in Invocations |-> 0],
     running |-> None, switches |-> 0]

Init ==
    /\ periods = <<>>
    /\ plans = <<>>
    /\ last = NoCall
    /\ ops = 0
    /\ engineOnly = TRUE
    /\ inflight = NoInvocations

\* PeriodService.get_or_create_by_params called on its own (the resolve
\* step of the plan-value and actual-value endpoints).
ResolvePeriodCall(maxOps) ==
    /\ ops < maxOps
    /\ \E year \in Years, rq \in PeriodRequests :
        LET r == GetOrCreateByParams(periods, year, rq[2], rq[1])
        IN  /\ periods' = r.periods
            /\ plans' = plans
            /\ last' = [NoCall EXCEPT !.op = "resolve", !.year = year,
                                      !.quarter = rq[1], !.month = rq[2],
                                      !.raised = r.raised, !.pid = r.id,
                                      !.created = r.created,
                                      !.repeat = Repeats("resolve", None, None,
                                                year, rq[1], rq[2], 0)]
    /\ ops' = ops + 1
    /\ engineOnly' = FALSE
    /\ inflight' = inflight

\* POST /plan-values (create_plan_value): a plain insert for an existing
\* period; the unique constraint rejects a second row of the same key.
CreatePlanValueCall(maxOps) ==
    /\ ops < maxOps
    /\ \E metric \in Metrics, shop \in Shops, value \in CreateValues,
          pid \in {i \in 1..Len(periods) : i <= MaxCreatePeriod} :
        LET r == PlanCreate(Begin(periods, plans, None),
                            metric, shop, pid, value)
        IN  /\ plans' = r.plans
            /\ periods' = periods
            /\ last' = [NoCall EXCEPT !.op = "create", !.metric = metric,
                                      !.shop = shop, !.pid = pid,
                                      !.value = value, !.raised = r.raised,
                                      !.ret = Outcome(r)]
    /\ ops' = ops + 1
    /\ engineOnly' = FALSE
    /\ inflight' = inflight

\* distribute_yearly_plan(metric, shop, year, Y) with Y from Ys, the store
\* failing at one of the plan-value writes fails (None: never).
DistributeCall(maxOps, Ys, fails) ==
    /\ ops < maxOps
    /\ \E metric \in Metrics, shop \in Shops, year \in Years, Y \in Ys,
          failAt \in fails :
        LET r == DistributeYearlyPlan(periods, plans, metric, shop, year, Y,
                                      failAt)
        IN  /\ plans' = r.plans
            /\ periods' = r.periods
            /\ last' = [NoCall EXCEPT !.op = "distribute", !.metric = metric,
                                      !.shop = shop, !.year = year,
                                      !.value = Y, !.raised = r.raised,
                                      !.ret = Outcome(r),
                                      !.repeat = Repeats("distribute", metric,
                                                shop, year, None, None, Y)]
    /\ ops' = ops + 1
    /\ engineOnly' = engineOnly
    /\ inflight' = inflight

\* recalculate_plan_with_actual(metric, shop, year, m, a) run in wall-clock
\* month cm, the store failing at one of the plan-value writes fails.
RecalculateCall(maxOps, fails) ==
    /\ ops < maxOps
    /\ \E metric \in Metrics, shop \in Shops, year \in Years,
          m \in ActualMonths, a \in ActualValues, cm \in CurrentMonths,
          failAt \in fails :
        LET r == RecalculatePlanWithActual(periods, plans, metric, shop, year,
                                           m, a, cm, failAt)
        IN  /\ plans' = r.plans
            /\ periods' = r.periods
            /\ last' = [NoCall EXCEPT !.op = "recalculate",
                                      !.metric = metric, !.shop = shop,
                                      !.year = year, !.month = m, !.value = a,
                                      !.current_month = cm,
                                      !.raised = r.raised, !.ret = Outcome(r),
                                      !.repeat = Repeats("recalculate", metric,
                                                shop, year, None, m, a)]
    /\ ops' = ops + 1
    /\ engineOnly' = engineOnly
    /\ inflight' = inflight

(* Spec: the recalculation engine over plans made by distribute_yearly_plan *)
(* or by hand, on a record store that does not fail.                        *)
ResolvePeriod == ResolvePeriodCall(MaxOps)

CreatePlanValue == CreatePlanValueCall(MaxOps)

Distribute == DistributeCall(MaxOps, RecalcYearlyValues, {None})

Recalculate == RecalculateCall(MaxOps, {None})

Next ==
    \/ ResolvePeriod
    \/ CreatePlanValue
    \/ Distribute
    \/ Recalculate

Spec == Init /\ [][Next]_vars

(* SpecAlloc: the allocation engine over every yearly value of the bound.   *)
AllocResolvePeriod == ResolvePeriodCall(MaxAllocOps)

AllocCreatePlanValue == CreatePlanValueCall(MaxAllocOps)

AllocDistribute == DistributeCall(MaxAllocOps, YearlyValues, {None})

NextAlloc ==
    \/ AllocResolvePeriod
    \/ AllocCreatePlanValue
    \/ AllocDistribute

SpecAlloc == Init /\ [][NextAlloc]_vars

(* SpecFail: both engines on a record store whose writes may fail.          *)
FailResolvePeriod == ResolvePeriodCall(MaxFailOps)

FailDistribute == DistributeCall(MaxFailOps, RecalcYearlyValues, {None})

DistributeFails == DistributeCall(MaxFailOps, RecalcYearlyValues, FailPoints)

RecalculateFails == RecalculateCall(MaxFailOps, FailPoints)

NextFail ==
    \/ FailResolvePeriod
    \/ FailDistribute
    \/ DistributeFails
    \/ RecalculateFails

SpecFail == Init /\ [][NextFail]_vars

(* SpecRace: two distribute_yearly_plan requests for one (metric, shop,     *)
(* year) with different yearly values, served concurrently. Each awaits the *)
(* record store at every lookup and write and every write is committed at   *)
(* once, so the other request's steps can fall between any two of the 17    *)
(* upserts; a step of the model is one upsert (a period get-or-create and   *)
(* the plan update-or-insert).                                              *)
RaceMetric == 1

RaceShop == 1

RaceYear == 2024

Other(i) == CHOOSE j \in Invocations : j # i

\* The other invocation is between its first and its last upsert.
MidCall(i) == inflight.pc[i] \in 2..17

\* The request arrives: distribute_yearly_plan is called with Y.
RaceBegin(i) ==
    /\ inflight.pc[i] = 0
    /\ \E Y \in RecalcYearlyValues :
        /\ inflight.pc[Other(i)] # 0 => Y # inflight.Y[Other(i)]
        /\ inflight' = [inflight EXCEPT !.pc[i] = 1, !.Y[i] = Y]
    /\ UNCHANGED <<periods, plans, last, ops, engineOnly>>

\* Invocation i takes its next upsert on the tables as they are now.
RaceStep(i) ==
    /\ inflight.pc[i] \in 1..17
    /\ LET preempts == MidCall(Other(i)) /\ inflight.running = Other(i)
           r == DistStep(Begin(periods, plans, None), RaceMetric, RaceShop,
                         RaceYear, inflight.Y[i], inflight.pc[i])
       IN  /\ preempts => inflight.switches < MaxSwitches
           /\ periods' = r.periods
           /\ plans' = r.plans
           /\ inflight' = [inflight EXCEPT
                            !.pc[i] = @ + 1,
                            !.running = i,
                            !.switches = IF preempts THEN @ + 1 ELSE @]
    /\ UNCHANGED <<last, ops, engineOnly>>

NextRace ==
    \/ \E i \in Invocations : RaceBegin(i)
    \/ \E i \in Invocations : RaceStep(i)

SpecRace == Init /\ [][NextRace]_vars

(* ------------------------- budget statistics ------------------------- *)

\* Totals handed to the budget classification, in hundredths: the actual
\* total runs over 0.00, 0.50, ..., MaxBudgetActual * 0.50.
BudgetPlans == {0, 10000, 20000}

BudgetActuals == {50 * k : k \in 0..MaxBudgetActual}

\* round((total_actual / total_plan) * 100): the values the float
\* computation can give. Away from a tie it is the nearest integer; on a tie
\* (the quotient ends in .5) the float quotient falls on either side of it.
RoundedPercent(total_actual, total_plan) ==
    LET c == total_actual * 100
        q == c \div total_plan
        r == c - q * total_plan
    IN  IF 2 * r < total_plan THEN {q}
        ELSE IF 2 * r > total_plan THEN {q + 1}
        ELSE {q, q + 1}

\* percentage = min(100, round(...)) when total_plan > 0, else 0.
BudgetPercentages(total_actual, total_plan) ==
    IF total_plan > 0
    THEN {IF v < 100 THEN v ELSE 100 :
            v \in RoundedPercent(total_actual, total_plan)}
    ELSE {0}

\* status: "ahead" above 105, "behind" below 95, else "on_track".
BudgetStatus(percentage) ==
    IF percentage > 105 THEN "ahead"
    ELSE IF percentage < 95 THEN "behind"
    ELSE "on_track"

\* remaining_budget = total_plan - total_actual when total_plan > 0, else 0.
\* The totals are multiples of 0.50, which floats hold exactly.
BudgetRemaining(total_actual, total_plan) ==
    IF total_plan > 0 THEN total_plan - total_actual ELSE 0

\* MetricService.calculate_budget_statistics from the two totals on. It
\* reads the store and writes nothing: ops counts store calls and stays.
\* One evaluation per behaviour.
BudgetStatistics ==
    /\ last = NoCall
    /\ \E total_plan \in BudgetPlans, total_actual \in BudgetActuals :
        \E percentage \in BudgetPercentages(total_actual, total_plan) :
            last' = [op |-> "budget", total_plan |-> total_plan,
                     total_actual |-> total_actual,
                     percentage |-> percentage,
                     status |-> BudgetStatus(percentage),
                     remaining_budget |->
                         BudgetRemaining(total_actual, total_plan)]
    /\ UNCHANGED <<periods, plans, ops, engineOnly, inflight>>

NextBudget == BudgetStatistics

SpecBudget == Init /\ [][NextBudget]_vars

(* ------------------------ comparison analytics ----------------------- *)

\* The tables prepare_comparison_data is handed: the periods of two years
\* (2023 has a year period only), and any selection of the candidate plan
\* and actual rows below. Metrics 1 and 2 belong to category 1; category 2
\* has no metric; shop 2 has actual rows only. PlanValue.value is an
\* unconstrained Decimal, so a plan row may be negative (a correction).
CompareYears == {2023, 2024}

ComparePeriods ==
    << [year |-> 2024, quarter |-> None, month |-> None],
       [year |-> 2024, quarter |-> 1, month |-> None],
       [year |-> 2024, quarter |-> 1, month |-> 1],
       [year |-> 2024, quarter |-> 2, month |-> 4],
       [year |-> 2023, quarter |-> None, month |-> None] >>

CompareCategories == {1, 2}

CompareShops == {1, 2}

CategoryOf == (1 :> 1) @@ (2 :> 1)

CandidatePlans ==
    << [metric |-> 1, shop |-> 1, period |-> 1, value |-> 0],
       [metric |-> 1, shop |-> 1, period |-> 2, value |-> 300],
       [metric |-> 2, shop |-> 1, period |-> 3, value |-> 0],
       [metric |-> 2, shop |-> 1, period |-> 4, value |-> 700],
       [metric |-> 1, shop |-> 1, period |-> 5, value |-> -200] >>

CandidateActuals ==
    << [metric |-> 1, shop |-> 1, period |-> 3, value |-> 100],
       [metric |-> 1, shop |-> 2, period |-> 3, value |-> 250],
       [metric |-> 2, shop |-> 1, period |-> 4, value |-> 0],
       [metric |-> 2, shop |-> 2, period |-> 5, value |-> 50] >>

\* The rows of a candidate list at the indices I, in order.
RECURSIVE Selected(_, _, _)
Selected(rows, I, i) ==
    IF i > Len(rows) THEN <<>>
    ELSE (IF i \in I THEN <<rows[i]>> ELSE <<>>) \o Selected(rows, I, i + 1)

\* sum(v.value for v in rows if keep(v)), kept being the indices of the rows
\* that pass the filter.
SumValues(rows, kept) ==
    SumOver(kept, [i \in 1..Len(rows) |-> rows[i].value])

\* actual_sum / plan_sum * 100 rounded to two places, in hundredths of a
\* percent; dividing by zero raises.
DecimalPercent(actual_sum, plan_sum) ==
    IF plan_sum = 0 THEN [value |-> 0, raised |-> TRUE]
    ELSE [value |-> RoundDiv(actual_sum * 10000, plan_sum), raised |-> FALSE]

\* A percentage computed without looking at the plan sum first.
ComparePercentageUnguarded(actual_sum, plan_sum) ==
    DecimalPercent(actual_sum, plan_sum)

\* percentage = (actual_sum / plan_sum * 100) if plan_sum > 0 else 0.
ComparePercentage(actual_sum, plan_sum) ==
    IF plan_sum > 0 THEN DecimalPercent(actual_sum, plan_sum)
    ELSE [value |-> 0, raised |-> FALSE]

\* One entry of the comparison: the group's sums and what derives from them.
CompareEntry(actual_values, plan_values, kept_actuals, kept_plans) ==
    LET actual_sum == SumValues(actual_values, kept_actuals)
        plan_sum == SumValues(plan_values, kept_plans)
        percentage == ComparePercentage(actual_sum, plan_sum)
    IN  [actual |-> actual_sum, plan |-> plan_sum,
         deviation |-> actual_sum - plan_sum,
         percentage |-> percentage.value, raised |-> percentage.raised]

\* prepare_comparison_data: the entries by year, quarter, month, category
\* and shop.
PrepareComparisonData(actual_values, plan_values, ps) ==
    [yearly |-> [year \in CompareYears |->
        LET keep(v) == ps[v.period].year = year
        IN  CompareEntry(actual_values, plan_values,
                {i \in 1..Len(actual_values) : keep(actual_values[i])},
                {i \in 1..Len(plan_values) : keep(plan_values[i])})],
     quarterly |-> [year \in CompareYears |-> [quarter \in 1..4 |->
        LET keep(v) == /\ ps[v.period].year = year
                       /\ ps[v.period].quarter = quarter
        IN  CompareEntry(actual_values, plan_values,
                {i \in 1..Len(actual_values) : keep(actual_values[i])},
                {i \in 1..Len(plan_values) : keep(plan_values[i])})]],
     monthly |-> [year \in CompareYears |-> [month \in 1..12 |->
        LET keep(v) == /\ ps[v.period].year = year
                       /\ ps[v.period].month = month
        IN  CompareEntry(actual_values, plan_values,
                {i \in 1..Len(actual_values) : keep(actual_values[i])},
                {i \in 1..Len(plan_values) : keep(plan_values[i])})]],
     categories |-> [c \in CompareCategories |->
        LET keep(v) == CategoryOf[v.metric] = c
        IN  CompareEntry(actual_values, plan_values,
                {i \in 1..Len(actual_values) : keep(actual_values[i])},
                {i \in 1..Len(plan_values) : keep(plan_values[i])})],
     shops |-> [shop \in CompareShops |->
        LET keep(v) == v.shop = shop
        IN  CompareEntry(actual_values, plan_values,
                {i \in 1..Len(actual_values) : keep(actual_values[i])},
                {i \in 1..Len(plan_values) : keep(plan_values[i])})]]

\* Every entry of a comparison.
CompareEntries(comparison) ==
    {comparison.yearly[year] : year \in CompareYears}
    \cup {comparison.quarterly[year][quarter] :
            year \in CompareYears, quarter \in 1..4}
    \cup {comparison.monthly[year][month] :
            year \in CompareYears, month \in 1..12}
    \cup {comparison.categories[c] : c \in CompareCategories}
    \cup {comparison.shops[shop] : shop \in CompareShops}

\* The comparison part of get_comprehensive_analytics on a selection of the
\* candidate rows. One evaluation per behaviour; the store is only read.
Compare ==
    /\ last = NoCall
    /\ \E P \in SUBSET (1..Len(CandidatePlans)),
          A \in SUBSET (1..Len(CandidateActuals)) :
        LET plan_values == Selected(CandidatePlans, P, 1)
            actual_values == Selected(CandidateActuals, A, 1)
            comparison == PrepareComparisonData(actual_values, plan_values,
                                                ComparePeriods)
        IN  last' = [op |-> "compare", plan_values |-> plan_values,
                     actual_values |-> actual_values,
                     comparison |-> comparison,
                     raised |-> \E e \in CompareEntries(comparison) :
                                    e.raised]
    /\ UNCHANGED <<periods, plans, ops, engineOnly, inflight>>

NextCompare == Compare

SpecCompare == Init /\ [][NextCompare]_vars

(* ====================== Trend & forecast helpers ====================== *)

\* The helpers compute in floating point. Their results are kept here as
\* exact fractions in lowest terms, [num, den] with den > 0; a square root
\* is kept as its radicand, a power as its base and root.
Abs(x) == IF x < 0 THEN 0 - x ELSE x

RECURSIVE Gcd(_, _)
Gcd(a, b) == IF b = 0 THEN a ELSE Gcd(b, a % b)

Lcm(a, b) == (a \div Gcd(a, b)) * b

\* What a division by zero leaves: the helper raises ZeroDivisionError, and
\* so does every computation that uses the result.
ZeroDivision == [num |-> 0, den |-> 0]

Raised(a) == a.den = 0

\* The quotient n / d of two whole numbers.
Rat(n, d) ==
    IF d = 0 THEN ZeroDivision
    ELSE LET g == Gcd(Abs(n), Abs(d))
             s == IF d < 0 THEN 0 - 1 ELSE 1
         IN  [num |-> s * (n \div g), den |-> s * (d \div g)]

RatAdd(a, b) ==
    IF Raised(a) \/ Raised(b) THEN ZeroDivision
    ELSE LET l == Lcm(a.den, b.den)
         IN  Rat(a.num * (l \div a.den) + b.num * (l \div b.den), l)

RatNeg(a) == [num |-> 0 - a.num, den |-> a.den]

RatSub(a, b) == RatAdd(a, RatNeg(b))

RatMul(a, b) ==
    IF Raised(a) \/ Raised(b) THEN ZeroDivision
    ELSE LET g == Gcd(Abs(a.num), b.den)
             h == Gcd(Abs(b.num), a.den)
         IN  Rat((a.num \div g) * (b.num \div h),
                 (a.den \div h) * (b.den \div g))

\* a / b.
RatDiv(a, b) == RatMul(a, Rat(b.den, b.num))

RatLess(a, b) == RatSub(a, b).num < 0

\* The series the helpers are applied to: whole numbers, up to MaxSeriesLen
\* of them for the regression alone and up to MaxHelperLen for all helpers
\* together.
MaxSeriesLen == 5

MaxHelperLen == 3

SeriesValues == 0..5

Series == UNION {[1..n -> SeriesValues] : n \in 0..MaxSeriesLen}

ShortSeries == UNION {[1..n -> SeriesValues] : n \in 0..MaxHelperLen}

\* sum(values).
SeqSum(values) == SumOver(1..Len(values), values)

\* _safe_mean: 0.0 for no values.
SafeMean(values) ==
    IF Len(values) = 0 THEN Rat(0, 1)
    ELSE Rat(SeqSum(values), Len(values))

\* _safe_std: the population variance whose square root is returned.
SafeStd(values) ==
    IF Len(values) = 0 THEN [sqrt |-> Rat(0, 1)]
    ELSE LET n == Len(values)
             total == SeqSum(values)
             squares == [i \in 1..n |-> (n * values[i] - total)
                                         * (n * values[i] - total)]
         IN  [sqrt |-> Rat(SeqSum(squares), n * n * n)]

\* Returns that divide by every previous point, zero or not.
ReturnsUnguarded(series) ==
    [i \in 1..(Len(series) - 1) |->
        Rat(series[i + 1] - series[i], Abs(series[i]))]

\* The returns of _safe_volatility: (curr - prev) / abs(prev), 0.0 after a
\* zero.
Returns(series) ==
    [i \in 1..(Len(series) - 1) |->
        IF series[i] = 0 THEN Rat(0, 1)
        ELSE Rat(series[i + 1] - series[i], Abs(series[i]))]

RECURSIVE RatSum(_, _)
RatSum(values, i) ==
    IF i > Len(values) THEN Rat(0, 1)
    ELSE RatAdd(values[i], RatSum(values, i + 1))

\* _safe_mean over fractions.
RatMean(values) ==
    IF Len(values) = 0 THEN Rat(0, 1)
    ELSE RatDiv(RatSum(values, 1), Rat(Len(values), 1))

\* _safe_volatility: the variance of the returns; the result is its square
\* root times 100.
SafeVolatility(series) ==
    IF Len(series) < 2 THEN [sqrt |-> Rat(0, 1), times |-> 100]
    ELSE LET returns == Returns(series)
             mean_r == RatMean(returns)
             variance == RatMean([i \in 1..Len(returns) |->
                            RatMul(RatSub(returns[i], mean_r),
                                   RatSub(returns[i], mean_r))])
         IN  [sqrt |-> variance, times |-> 100]

\* The sums of _linear_regression_forecast over x = 0..n-1, y = series.
RegressionSums(series) ==
    LET n == Len(series)
        x_sum == SumOver(1..n, [i \in 1..n |-> i - 1])
        y_sum == SeqSum(series)
        xy_sum == SumOver(1..n, [i \in 1..n |-> (i - 1) * series[i]])
        x2_sum == SumOver(1..n, [i \in 1..n |-> (i - 1) * (i - 1)])
    IN  [n |-> n, x_sum |-> x_sum, y_sum |-> y_sum, xy_sum |-> xy_sum,
         x2_sum |-> x2_sum, denom |-> n * x2_sum - x_sum * x_sum]

\* A regression whose x runs over 1..n instead of 0..n-1.
LinearRegressionForecastOneBased(series) ==
    LET n == Len(series)
        x_sum == SumOver(1..n, [i \in 1..n |-> i])
        y_sum == SeqSum(series)
        xy_sum == SumOver(1..n, [i \in 1..n |-> i * series[i]])
        x2_sum == SumOver(1..n, [i \in 1..n |-> i * i])
        denom == n * x2_sum - x_sum * x_sum
    IN  IF n = 0
        THEN [slope |-> Rat(0, 1), intercept |-> Rat(0, 1),
              forecast |-> Rat(0, 1)]
        ELSE IF denom = 0
        THEN [slope |-> Rat(0, 1), intercept |-> Rat(y_sum, n),
              forecast |-> Rat(y_sum, n)]
        ELSE LET slope == Rat(n * xy_sum - x_sum * y_sum, denom)
                 intercept == RatDiv(RatSub(Rat(y_sum, 1),
                                            RatMul(slope, Rat(x_sum, 1))),
                                     Rat(n, 1))
             IN  [slope |-> slope, intercept |-> intercept,
                  forecast |-> RatAdd(RatMul(slope, Rat(n, 1)), intercept)]

\* _linear_regression_forecast: (slope, intercept, next_forecast).
LinearRegressionForecast(series) ==
    LET s == RegressionSums(series)
    IN  IF s.n = 0
        THEN [slope |-> Rat(0, 1), intercept |-> Rat(0, 1),
              forecast |-> Rat(0, 1)]
        ELSE IF s.denom = 0
        THEN [slope |-> Rat(0, 1), intercept |-> Rat(s.y_sum, s.n),
              forecast |-> Rat(s.y_sum, s.n)]
        ELSE LET slope == Rat(s.n * s.xy_sum - s.x_sum * s.y_sum, s.denom)
                 intercept == RatDiv(RatSub(Rat(s.y_sum, 1),
                                            RatMul(slope, Rat(s.x_sum, 1))),
                                     Rat(s.n, 1))
             IN  [slope |-> slope, intercept |-> intercept,
                  forecast |-> RatAdd(RatMul(slope, Rat(s.n, 1)), intercept)]

\* 0.5 <= confidence <= 0.99.
Clamp(confidence) ==
    IF RatLess(confidence, Rat(1, 2)) THEN Rat(1, 2)
    ELSE IF RatLess(Rat(99, 100), confidence) THEN Rat(99, 100)
    ELSE confidence

\* _confidence_from_series: 0.95 below three points, else
\* 1 - mse / max(series) clamped, the divisor 1.0 when max(series) <= 0.
ConfidenceFromSeries(series, slope, intercept) ==
    LET n == Len(series)
    IN  IF n < 3 THEN Rat(95, 100)
        ELSE LET residuals == [i \in 1..n |->
                    RatSub(Rat(series[i], 1),
                           RatAdd(RatMul(slope, Rat(i - 1, 1)), intercept))]
                 mse == RatMean([i \in 1..n |->
                            RatMul(residuals[i], residuals[i])])
                 top == Max({series[i] : i \in 1..n})
                 denom == IF top <= 0 THEN 1 ELSE top
             IN  Clamp(RatSub(Rat(1, 1), RatDiv(mse, Rat(denom, 1))))

\* _first_nonzero: the first point that is not 0, else 0.0.
FirstNonzero(points) ==
    IF \E i \in 1..Len(points) : points[i] # 0
    THEN points[Min({i \in 1..Len(points) : points[i] # 0})]
    ELSE 0

\* _last_nonzero: the last point that is not 0, else the last point, else
\* 0.0.
LastNonzero(points) ==
    IF \E i \in 1..Len(points) : points[i] # 0
    THEN points[Max({i \in 1..Len(points) : points[i] # 0})]
    ELSE IF Len(points) > 0 THEN points[Len(points)] ELSE 0

\* sorted(points).
RECURSIVE SortFrom(_, _)
SortFrom(points, I) ==
    IF I = {} THEN <<>>
    ELSE LET i == CHOOSE i \in I : \A j \in I : points[i] <= points[j]
         IN  <<points[i]>> \o SortFrom(points, I \ {i})

\* _quantile at p = quarters / 4 over sorted points: linear interpolation
\* between the two neighbours of (len - 1) * p.
Quantile(points, quarters) ==
    IF Len(points) = 0 THEN Rat(0, 1)
    ELSE LET pos == (Len(points) - 1) * quarters
             base == pos \div 4
             rest == Rat(pos % 4, 4)
         IN  IF base + 1 < Len(points)
             THEN RatAdd(Rat(points[base + 1], 1),
                         RatMul(rest, Rat(points[base + 2]
                                          - points[base + 1], 1)))
             ELSE Rat(points[base + 1], 1)

\* The max-drawdown loop: under the running peak, where it is above 0, the
\* most negative (value - peak) / peak * 100; 0.0 when there is none.
Drawdown(points) ==
    LET peak == [i \in 1..Len(points) |->
                    Max({points[j] : j \in 1..i})]
        I == {i \in 1..Len(points) : peak[i] > 0}
        drawdown == [i \in I |->
                        Rat((points[i] - peak[i]) * 100, peak[i])]
    IN  IF I = {} THEN Rat(0, 1)
        ELSE drawdown[CHOOSE i \in I : \A j \in I :
                        ~ RatLess(drawdown[j], drawdown[i])]

\* round(x, digits) of a float x, as a whole number of 1/scale: the values
\* the float computation can give. Away from a tie it is the nearest; a tie
\* that a float holds exactly (its denominator is a power of two) goes to
\* the even neighbour; any other tie falls on either side.
RECURSIVE IsPowerOfTwo(_)
IsPowerOfTwo(d) == d = 1 \/ (d % 2 = 0 /\ IsPowerOfTwo(d \div 2))

RoundFloat(x, scale) ==
    LET c == x.num * scale
        q == c \div x.den
        r == c - q * x.den
    IN  IF 2 * r < x.den THEN {q}
        ELSE IF 2 * r > x.den THEN {q + 1}
        ELSE IF IsPowerOfTwo(x.den) THEN {IF q % 2 = 0 THEN q ELSE q + 1}
        ELSE {q, q + 1}

\* The compound growth of a yearly series, (base ** (1 / root) - 1) * 100:
\* kept as base and root, 0.0 being base 1.
Cagr(points, is_yearly) ==
    IF is_yearly /\ Len(points) >= 2 /\ FirstNonzero(points) > 0
    THEN [base |-> Rat(LastNonzero(points), FirstNonzero(points)),
          root |-> Len(points) - 1]
    ELSE [base |-> Rat(1, 1), root |-> 1]

\* _compute_extended_stats: median, q25, q75, iqr, maxDrawdown in
\* hundredths, r2 in ten-thousandths, nonZeroShare in tenths; all 0 with
\* count 0 for no points.
ComputeExtendedStats(points, is_yearly) ==
    IF Len(points) = 0
    THEN {[median |-> 0, q25 |-> 0, q75 |-> 0, iqr |-> 0, r2 |-> 0,
           cagr |-> [base |-> Rat(1, 1), root |-> 1], maxDrawdown |-> 0,
           count |-> 0, nonZeroShare |-> 0]}
    ELSE LET sorted_points == SortFrom(points, 1..Len(points))
             q25 == Quantile(sorted_points, 1)
             median == Quantile(sorted_points, 2)
             q75 == Quantile(sorted_points, 3)
             iqr == RatSub(q75, q25)
             r2 == IF Len(points) >= 2 /\ SafeMean(points).num > 0
                   THEN 8000 ELSE 0
             max_drawdown == IF Len(points) >= 2
                             THEN Drawdown(points)
                             ELSE Rat(0, 1)
             count == Len(points)
             non_zero_count ==
                 Cardinality({i \in 1..count : points[i] # 0})
         IN  {[median |-> a, q25 |-> b, q75 |-> c, iqr |-> d, r2 |-> r2,
               cagr |-> Cagr(points, is_yearly), maxDrawdown |-> e,
               count |-> count, nonZeroShare |-> f] :
                a \in RoundFloat(median, 100), b \in RoundFloat(q25, 100),
                c \in RoundFloat(q75, 100), d \in RoundFloat(iqr, 100),
                e \in RoundFloat(max_drawdown, 100),
                f \in RoundFloat(Rat(non_zero_count * 100, count), 10)}

(* -------------------------- trend statistics -------------------------- *)

\* What prepare_trends_statistics is handed: any of two years, the periods
\* below, any selection of the candidate actual rows (whole amounts, in
\* hundredths), no plan rows, and a month range.
TrendYears == {2023, 2024}

TrendPeriods ==
    << [year |-> 2023, quarter |-> 1, month |-> 1],
       [year |-> 2023, quarter |-> 4, month |-> 12],
       [year |-> 2024, quarter |-> None, month |-> None],
       [year |-> 2024, quarter |-> 1, month |-> 1],
       [year |-> 2024, quarter |-> 2, month |-> 4] >>

TrendActuals ==
    << [metric |-> 1, shop |-> 1, period |-> 1, value |-> 200],
       [metric |-> 1, shop |-> 1, period |-> 2, value |-> 0],
       [metric |-> 1, shop |-> 1, period |-> 4, value |-> 300],
       [metric |-> 1, shop |-> 1, period |-> 5, value |-> 100],
       [metric |-> 2, shop |-> 1, period |-> 3, value |-> 100] >>

\* (month_start, month_end): the whole year, a quarter, one month, a range
\* that ends before it starts, and one that reaches outside 1..12.
MonthRanges == {<<1, 12>>, <<4, 6>>, <<12, 12>>, <<7, 6>>, <<0, 14>>}

\* float(Decimal) of a whole amount held in hundredths.
ToFloat(v) == v \div 100

\* prepare_trends_data as prepare_trends_statistics calls it, without a
\* month range: the entries by year, quarter and month of the given years.
PrepareTrendsData(actual_values, plan_values, ps, years) ==
    [yearly |-> [year \in years |->
        LET keep(v) == ps[v.period].year = year
        IN  CompareEntry(actual_values, plan_values,
                {i \in 1..Len(actual_values) : keep(actual_values[i])},
                {i \in 1..Len(plan_values) : keep(plan_values[i])})],
     quarterly |-> [year \in years |-> [quarter \in 1..4 |->
        LET keep(v) == /\ ps[v.period].year = year
                       /\ ps[v.period].quarter = quarter
        IN  CompareEntry(actual_values, plan_values,
                {i \in 1..Len(actual_values) : keep(actual_values[i])},
                {i \in 1..Len(plan_values) : keep(plan_values[i])})]],
     monthly |-> [year \in years |-> [month \in 1..12 |->
        LET keep(v) == /\ ps[v.period].year = year
                       /\ ps[v.period].month = month
        IN  CompareEntry(actual_values, plan_values,
                {i \in 1..Len(actual_values) : keep(actual_values[i])},
                {i \in 1..Len(plan_values) : keep(plan_values[i])})]]]

\* sorted(years).
RECURSIVE SortedYears(_)
SortedYears(years) ==
    IF years = {} THEN <<>>
    ELSE <<Min(years)>> \o SortedYears(years \ {Min(years)})

\* A month's 'actual' is the int 0 of an empty sum when the month has no
\* actual row, and a Decimal otherwise; _seasonality_from_monthly keeps int
\* and float values only.
IsIntOrFloat(actual_values, ps, year, month) ==
    ~ \E i \in 1..Len(actual_values) :
        /\ ps[actual_values[i].period].year = year
        /\ ps[actual_values[i].period].month = month

\* A seasonality with one entry per selected year.
SeasonalityPerYear(monthly_values, actual_values, ps, years) ==
    [i \in 1..Cardinality(years) |-> Rat(0, 1)]

\* _seasonality_from_monthly: for each of the twelve month names the mean
\* of the values kept over the years.
SeasonalityFromMonthly(monthly_values, actual_values, ps, years) ==
    [month \in 1..12 |->
        LET sorted_years == SortedYears(
                {y \in years : IsIntOrFloat(actual_values, ps, y, month)})
        IN  SafeMean([i \in 1..Len(sorted_years) |->
                ToFloat(monthly_values[sorted_years[i]][month].actual)])]

\* The empty dict a granularity keeps when its series has no point.
NoStats == [reported |-> FALSE, raised |-> FALSE]

\* A granularity whose computation raised.
RaisedStats == [reported |-> FALSE, raised |-> TRUE]

\* The statistics of one non-empty series: mean, trend, forecast, median,
\* q25, q75, iqr and maxDrawdown in hundredths, slope and r2 in
\* ten-thousandths, nonZeroShare in tenths; stdDev, volatility and cagr
\* are rounded to two places from the values they are kept as.
SeriesStatistics(points, is_yearly) ==
    LET mean == SafeMean(points)
        std == SafeStd(points)
        first == FirstNonzero(points)
        current == LastNonzero(points)
        trend == IF first # 0 THEN Rat((current - first) * 100, first)
                 ELSE Rat(0, 1)
        regression == LinearRegressionForecast(points)
        volatility == SafeVolatility(points)
        confidence == ConfidenceFromSeries(points, regression.slope,
                                           regression.intercept)
    IN  IF \/ Raised(mean) \/ Raised(std.sqrt) \/ Raised(trend)
           \/ Raised(regression.slope) \/ Raised(regression.intercept)
           \/ Raised(regression.forecast) \/ Raised(volatility.sqrt)
           \/ Raised(confidence)
        THEN {RaisedStats}
        ELSE {[reported |-> TRUE, raised |-> FALSE, mean |-> a,
               stdDev |-> std, trend |-> b,
               max |-> Max({points[i] : i \in 1..Len(points)}),
               min |-> Min({points[i] : i \in 1..Len(points)}),
               current |-> current, forecast |-> c, slope |-> d,
               volatility |-> volatility, confidence |-> confidence] @@ e :
                a \in RoundFloat(mean, 100), b \in RoundFloat(trend, 100),
                c \in RoundFloat(regression.forecast, 100),
                d \in RoundFloat(regression.slope, 10000),
                e \in ComputeExtendedStats(points, is_yearly)}

\* The months month_names[max(0, month_start - 1) : max(0, month_end)].
SelectedMonths(month_start, month_end) ==
    {m \in 1..12 : /\ m > Max({0, month_start - 1})
                   /\ m <= Max({0, month_end})}

\* The months of a set in calendar order.
RECURSIVE SortedMonths(_)
SortedMonths(months) ==
    IF months = {} THEN <<>>
    ELSE <<Min(months)>> \o SortedMonths(months \ {Min(months)})

\* The points of one granularity, year after year in ascending order.
RECURSIVE PointsOf(_, _, _)
PointsOf(by_year, sorted_years, keys) ==
    IF sorted_years = <<>> THEN <<>>
    ELSE [i \in 1..Len(keys) |->
            ToFloat(by_year[Head(sorted_years)][keys[i]].actual)]
         \o PointsOf(by_year, Tail(sorted_years), keys)

\* prepare_trends_statistics: the statistics of the yearly, quarterly and
\* monthly series, every outcome the rounding allows; a granularity with no
\* point keeps an empty dict.
PrepareTrendsStatistics(actual_values, plan_values, ps, years, month_start, month_end) ==
    LET trends == PrepareTrendsData(actual_values, plan_values, ps, years)
        sorted_years == SortedYears(years)
        yearly_points == [i \in 1..Len(sorted_years) |->
            ToFloat(trends.yearly[sorted_years[i]].actual)]
        quarterly_points ==
            PointsOf(trends.quarterly, sorted_years, <<1, 2, 3, 4>>)
        monthly_points ==
            PointsOf(trends.monthly, sorted_years,
                     SortedMonths(SelectedMonths(month_start, month_end)))
        seasonality == SeasonalityFromMonthly(trends.monthly, actual_values,
                                              ps, years)
        yearly == IF yearly_points = <<>> THEN {NoStats}
                  ELSE SeriesStatistics(yearly_points, TRUE)
        quarterly == IF quarterly_points = <<>> THEN {NoStats}
                     ELSE SeriesStatistics(quarterly_points, FALSE)
        monthly == IF monthly_points = <<>> THEN {NoStats}
                   ELSE {IF s.raised THEN s
                         ELSE [seasonality |-> seasonality] @@ s :
                            s \in SeriesStatistics(monthly_points, FALSE)}
    IN  {[yearly |-> a, quarterly |-> b, monthly |-> c,
          points |-> [yearly |-> yearly_points,
                      quarterly |-> quarterly_points,
                      monthly |-> monthly_points],
          raised |-> a.raised \/ b.raised \/ c.raised] :
            a \in yearly, b \in quarterly, c \in monthly}

\* The helpers applied to one series. One evaluation per behaviour; the
\* store is not touched.
TrendHelpers ==
    /\ last = NoCall
    /\ \E series \in ShortSeries, is_yearly \in BOOLEAN :
        LET regression == LinearRegressionForecast(series)
            mean == SafeMean(series)
            std == SafeStd(series)
            volatility == SafeVolatility(series)
            confidence == ConfidenceFromSeries(series, regression.slope,
                                               regression.intercept)
        IN  \E extended \in ComputeExtendedStats(series, is_yearly) :
            last' = [op |-> "helpers", series |-> series,
                     is_yearly |-> is_yearly, mean |-> mean, std |-> std,
                     volatility |-> volatility, regression |-> regression,
                     confidence |-> confidence, extended |-> extended,
                     raised |-> \/ Raised(mean) \/ Raised(std.sqrt)
                                \/ Raised(volatility.sqrt)
                                \/ Raised(regression.slope)
                                \/ Raised(regression.intercept)
                                \/ Raised(regression.forecast)
                                \/ Raised(confidence)]
    /\ UNCHANGED <<periods, plans, ops, engineOnly, inflight>>

\* The trendStats part of get_comprehensive_analytics on a selection of the
\* candidate rows. One evaluation per behaviour; the store is only read.
TrendsStatistics ==
    /\ last = NoCall
    /\ \E years \in SUBSET TrendYears,
          A \in SUBSET (1..Len(TrendActuals)), range \in MonthRanges :
        LET actual_values == Selected(TrendActuals, A, 1)
        IN  \E stats \in PrepareTrendsStatistics(actual_values, <<>>,
                            TrendPeriods, years, range[1], range[2]) :
            last' = [op |-> "trendStats", years |-> years,
                     actual_values |-> actual_values,
                     month_start |-> range[1], month_end |-> range[2],
                     stats |-> stats, raised |-> stats.raised]
    /\ UNCHANGED <<periods, plans, ops, engineOnly, inflight>>

NextTrend == TrendHelpers \/ TrendsStatistics

SpecTrend == Init /\ [][NextTrend]_vars

\* _linear_regression_forecast applied to one series. One evaluation per
\* behaviour; the store is not touched.
Regression ==
    /\ last = NoCall
    /\ \E series \in Series :
        LET regression == LinearRegressionForecast(series)
        IN  last' = [op |-> "regression", series |-> series,
                     regression |-> regression,
                     raised |-> \/ Raised(regression.slope)
                                \/ Raised(regression.intercept)
                                \/ Raised(regression.forecast)]
    /\ UNCHANGED <<periods, plans, ops, engineOnly, inflight>>

NextRegression == Regression

SpecRegression == Init /\ [][NextRegression]_vars

(* ------------- recalculation that keeps the yearly total -------------- *)
(* PlanValueService.recalculate_plan_with_actual of service/finance.py:     *)
(* what is left of the yearly plan after the months up to m is spread      *)
(* evenly over the months after m.                                          *)

MaxPreserveOps == 3

\* The actual values on record for months 1..Len of the year: none, or the
\* first four months.
RecordedActuals == {<<>>, <<4, 0, 8, 4>>}

\* Months an actual value is entered for.
PreserveMonths == {1, 5, 12}

\* The yearly value distributed before the recalculation.
KeepTotalYearlyValues == {120}

\* A value c / n of hundredths as the NUMERIC(12, 2) column keeps it: the
\* record store rounds to two places, halves away from zero.
NumericRound(c, n) ==
    IF c >= 0 THEN (2 * c + n) \div (2 * n)
    ELSE 0 - ((2 * (0 - c) + n) \div (2 * n))

\* PeriodService.get_or_create of service/finance.py: the period of exactly
\* this (year, quarter, month), inserted when there is none.
PeriodGetOrCreate(ps, year, quarter, month) ==
    LET found == GetByYearQuarterMonth(ps, year, quarter, month)
    IN  IF found # None THEN [periods |-> ps, id |-> found]
        ELSE [periods |-> Append(ps, [year |-> year, quarter |-> quarter,
                                      month |-> month]),
              id |-> Len(ps) + 1]

\* The periods after get_or_create for each of the months from..12.
RECURSIVE EnsureMonths(_, _, _)
EnsureMonths(ps, year, from) ==
    IF from > 12 THEN ps
    ELSE EnsureMonths(
            PeriodGetOrCreate(ps, year, (from - 1) \div 3 + 1, from).periods,
            year, from + 1)

\* plan_values_by_month.get(month, 0), or the recorded actual value if any.
PastValue(ps, pl, actuals, metric, shop, year, month_num) ==
    IF month_num <= Len(actuals) THEN actuals[month_num]
    ELSE LET pid == GetByYearQuarterMonth(ps, year,
                        (month_num - 1) \div 3 + 1, month_num)
             plan == PlanGetByParams(pl, metric, shop, pid)
         IN  IF plan = None THEN 0 ELSE pl[plan].value

\* past_sum: the months before actual_month by PastValue, actual_month by
\* the value entered.
PastSum(ps, pl, actuals, metric, shop, year, actual_month, actual_value) ==
    actual_value
    + SumOver(1..(actual_month - 1),
              [k \in 1..12 |-> PastValue(ps, pl, actuals, metric, shop, year, k)])

\* Step 6: every month after actual_month gets value_per_future_month =
\* remaining / n, its plan updated or created.
RECURSIVE PreserveMonths6(_, _, _, _, _, _, _)
PreserveMonths6(st, metric, shop, year, month_num, remaining, n) ==
    IF month_num > 12 THEN st
    ELSE LET pid == GetByYearQuarterMonth(st.periods, year,
                        (month_num - 1) \div 3 + 1, month_num)
         IN  PreserveMonths6(
                PlanUpsert(st, metric, shop, pid, NumericRound(remaining, n)),
                metric, shop, year, month_num + 1, remaining, n)

\* Step 7, first half: the plan of the quarter of actual_month is updated
\* (never created) to the sum of its months: past values, the value entered
\* and value_per_future_month for the months after actual_month.
PreserveCurrentQuarter(st, pl, actuals, metric, shop, year, actual_month, actual_value, remaining, n) ==
    LET actual_quarter == (actual_month - 1) \div 3 + 1
        p == PeriodGetOrCreate(st.periods, year, actual_quarter, None)
        first == (actual_quarter - 1) * 3 + 1
        past == SumOver(first..(actual_month - 1),
                    [k \in 1..12 |-> PastValue(st.periods, pl, actuals,
                                               metric, shop, year, k)])
        later == actual_quarter * 3 - actual_month
        st2 == [st EXCEPT !.periods = p.periods]
        plan == PlanGetByParams(st2.plans, metric, shop, p.id)
    IN  IF plan = None THEN st2
        ELSE PlanUpdate(st2, plan,
                 NumericRound((past + actual_value) * n + later * remaining, n))

\* Step 7, second half: the plan of every later quarter is updated or
\* created with 3 * value_per_future_month.
RECURSIVE PreserveFutureQuarters(_, _, _, _, _, _, _)
PreserveFutureQuarters(st, metric, shop, year, quarter, remaining, n) ==
    IF quarter > 4 THEN st
    ELSE LET p == PeriodGetOrCreate(st.periods, year, quarter, None)
         IN  PreserveFutureQuarters(
                PlanUpsert([st EXCEPT !.periods = p.periods], metric, shop,
                           p.id, NumericRound(3 * remaining, n)),
                metric, shop, year, quarter + 1, remaining, n)

\* The recalculation of service/finance/plan_value.py in its place, run in
\* January.
RecalculateAdjustingTotal(ps, pl, metric, shop, year, actual_month, actual_value, actuals) ==
    RecalculatePlanWithActual(ps, pl, metric, shop, year, actual_month,
                              actual_value, 1, None)

\* The call as a whole. It raises when the yearly plan or the plan of
\* actual_month is missing (the periods inserted until then stay), returns
\* the yearly plan alone when no month follows actual_month, and otherwise
\* returns the yearly plan and the month plans it wrote.
RecalculateKeepingTotal(ps, pl, metric, shop, year, actual_month, actual_value, actuals) ==
    LET actual_quarter == (actual_month - 1) \div 3 + 1
        year_period == PeriodGetOrCreate(ps, year, None, None)
        actual_month_period ==
            PeriodGetOrCreate(year_period.periods, year, actual_quarter,
                              actual_month)
        yearly_plan == PlanGetByParams(pl, metric, shop, year_period.id)
        monthly_plan == PlanGetByParams(pl, metric, shop,
                                        actual_month_period.id)
        st0 == Begin(actual_month_period.periods, pl, None)
    IN  IF yearly_plan = None \/ monthly_plan = None
        THEN [st0 EXCEPT !.raised = TRUE]
        ELSE LET st1 == [st0 EXCEPT
                            !.periods = EnsureMonths(@, year, 1),
                            !.ret = <<Returned(st0, yearly_plan)>>]
                 n == 12 - actual_month
                 remaining == pl[yearly_plan].value
                              - PastSum(st1.periods, pl, actuals, metric, shop,
                                        year, actual_month, actual_value)
                 st6 == PreserveMonths6(st1, metric, shop, year,
                                        actual_month + 1, remaining, n)
                 st7 == PreserveFutureQuarters(
                            PreserveCurrentQuarter(st6, pl, actuals, metric,
                                shop, year, actual_month, actual_value,
                                remaining, n),
                            metric, shop, year, actual_quarter + 1,
                            remaining, n)
             IN  IF n = 0 THEN st1
                 ELSE [st7 EXCEPT !.ret = st6.ret]

\* One call of the recalculation that keeps the total, on the plans of one
\* (metric, shop, year), whatever actual values are on record.
RecalculateKeepingTotalCall ==
    /\ ops < MaxPreserveOps
    /\ \E metric \in Metrics, shop \in Shops, year \in Years,
          m \in PreserveMonths, a \in ActualValues,
          actuals \in RecordedActuals :
        LET r == RecalculateKeepingTotal(periods, plans, metric, shop, year,
                                         m, a, actuals)
        IN  /\ plans' = r.plans
            /\ periods' = r.periods
            /\ last' = [NoCall EXCEPT !.op = "recalculate_keeping_total",
                                      !.metric = metric, !.shop = shop,
                                      !.year = year, !.month = m, !.value = a,
                                      !.raised = r.raised, !.ret = Outcome(r)]
    /\ ops' = ops + 1
    /\ engineOnly' = engineOnly
    /\ inflight' = inflight

(* SpecKeepTotal: the recalculation that keeps the total over plans made by *)
(* distribute_yearly_plan or by hand.                                       *)
KeepTotalResolvePeriod == ResolvePeriodCall(MaxPreserveOps)

KeepTotalCreatePlanValue == CreatePlanValueCall(MaxPreserveOps)

KeepTotalDistribute == DistributeCall(MaxPreserveOps, KeepTotalYearlyValues, {None})

NextKeepTotal ==
    \/ KeepTotalResolvePeriod
    \/ KeepTotalCreatePlanValue
    \/ KeepTotalDistribute
    \/ RecalculateKeepingTotalCall

SpecKeepTotal == Init /\ [][NextKeepTotal]_vars

(* ------------------- comparison of a distributed plan ----------------- *)
(* get_comprehensive_analytics hands prepare_comparison_data every period  *)
(* of the years asked for and every plan value of those periods.            *)

MaxCompareStoreOps == 2

\* Yearly values distributed before the comparison.
CompareYearlyValues == {0, 7, 11, 120}

\* The comparison of the plans in the store, for the years of the model and
\* without actual values. The store is only read.
CompareStore ==
    /\ last.op # "compare_store"
    /\ last' = [op |-> "compare_store",
                comparison |-> PrepareComparisonData(<<>>, plans, periods),
                raised |-> FALSE]
    /\ UNCHANGED <<periods, plans, ops, engineOnly, inflight>>

CompareStoreDistribute == DistributeCall(MaxCompareStoreOps, CompareYearlyValues, {None})

NextCompareStore ==
    \/ CompareStoreDistribute
    \/ CompareStore

SpecCompareStore == Init /\ [][NextCompareStore]_vars

(* ============================ properties ============================== *)

\* The plan rows of (metric, shop) at the periods of a year of one kind:
\* kind "year" (no quarter, no month), "quarter" n (quarter n, no month) or
\* "month" n (month n).
RowsAt(ps, pl, metric, shop, year, kind, n) ==
    {i \in 1..Len(pl) :
        /\ pl[i].metric = metric
        /\ pl[i].shop = shop
        /\ pl[i].period \in 1..Len(ps)
        /\ ps[pl[i].period].year = year
        /\ CASE kind = "year" ->
                    /\ ps[pl[i].period].quarter = None
                    /\ ps[pl[i].period].month = None
             [] kind = "quarter" ->
                    /\ ps[pl[i].period].quarter = n
                    /\ ps[pl[i].period].month = None
             [] OTHER -> ps[pl[i].period].month = n}

\* The value of the only row of a set of rows.
ValueOf(pl, rows) == pl[CHOOSE i \in rows : TRUE].value

\* v is Y / n rounded to the hundredth, ties to the even hundredth.
IsRounded(v, Y, n) ==
    LET d == n * v - Y
        dist == IF d < 0 THEN -d ELSE d
    IN  /\ 2 * dist <= n
        /\ 2 * dist = n => v % 2 = 0

DistributeDone == last.op = "distribute" /\ ~last.raised

RecalculateDone == last.op = "recalculate" /\ ~last.raised

C2_MonthsSumToQuarter ==
    DistributeDone =>
        LET Q(q) == RowsAt(periods, plans, last.metric, last.shop, last.year,
                           "quarter", q)
            M(k) == RowsAt(periods, plans, last.metric, last.shop, last.year,
                           "month", k)
            qv(q) == ValueOf(plans, Q(q))
            mv(k) == ValueOf(plans, M(k))
        IN  /\ \A k \in 1..12 : Cardinality(M(k)) = 1
            /\ \A q \in 1..4 :
                /\ Cardinality(Q(q)) = 1
                /\ IsRounded(mv(3 * q - 2), qv(q), 3)
                /\ mv(3 * q - 1) = mv(3 * q - 2)
                /\ mv(3 * q) = qv(q) - 2 * mv(3 * q - 2)
                /\ mv(3 * q - 2) + mv(3 * q - 1) + mv(3 * q) = qv(q)

\* A distribution in which some quarter does not divide by three, so that its
\* third month differs from the first two, the month-1 period being one
\* that existed before with another quarter.
C2_Witness ==
    /\ DistributeDone
    /\ \E i \in 1..Len(periods) :
            periods[i].month = 1 /\ periods[i].quarter = 2
    /\ \E q \in 1..4 :
        LET M(k) == RowsAt(periods, plans, last.metric, last.shop, last.year,
                           "month", k)
        IN  ValueOf(plans, M(3 * q)) # ValueOf(plans, M(3 * q - 2))


\* C3: a recalculate_plan_with_actual call made after nothing but
\* distribute_yearly_plan and recalculate_plan_with_actual calls leaves the
\* yearly plan rows of its (metric, shop, year), and their values, as they
\* were before the call.
C3_YearlyPlanUnchanged ==
    [][(engineOnly' /\ last'.op = "recalculate" /\ ops' = ops + 1) =>
        LET before == RowsAt(periods, plans, last'.metric, last'.shop,
                             last'.year, "year", None)
            after == RowsAt(periods', plans', last'.metric, last'.shop,
                            last'.year, "year", None)
        IN  /\ after = before
            /\ \A i \in before : plans'[i].value = plans[i].value]_vars

\* C4: whenever a yearly plan row exists for (metric, shop, year), after
\* recalculate_plan_with_actual(metric, shop, year, m, a) month m has a plan
\* row and its value is a.
C4_ActualMonthHoldsActual ==
    (/\ RecalculateDone
     /\ RowsAt(periods, plans, last.metric, last.shop, last.year,
               "year", None) # {}) =>
        LET M == RowsAt(periods, plans, last.metric, last.shop, last.year,
                        "month", last.month)
        IN  /\ M # {}
            /\ \A i \in M : plans[i].value = last.value

\* C5: a distribute_yearly_plan or recalculate_plan_with_actual call in
\* which a record-store write fails leaves the plan-value table as it was
\* before the call.
C5_FailedCallLeavesPlans ==
    [][(/\ ops' = ops + 1
        /\ last'.op \in {"distribute", "recalculate"}
        /\ last'.raised) => plans' = plans]_vars

\* The yearly value of (metric, shop, year) less what is spent through
\* month m when a is recorded for it: the plans of the months before m (no
\* actual value is on record for them) plus a.
Spent(ps, pl, metric, shop, year, m, a) ==
    a + SumOver({k \in 1..(m - 1) :
                    RowsAt(ps, pl, metric, shop, year, "month", k) # {}},
                [k \in 1..12 |->
                    IF RowsAt(ps, pl, metric, shop, year, "month", k) # {}
                    THEN ValueOf(pl, RowsAt(ps, pl, metric, shop, year,
                                            "month", k))
                    ELSE 0])

\* C6: when the spending through month m exceeds the yearly plan, after
\* recalculate_plan_with_actual(metric, shop, year, m, a) every plan of the
\* months m+1..12 is 0. Stated for a call that follows nothing but
\* distribute_yearly_plan and recalculate_plan_with_actual calls.
C6_OverrunZeroesFutureMonths ==
    [][(/\ engineOnly' /\ last'.op = "recalculate" /\ ops' = ops + 1
        /\ RowsAt(periods, plans, last'.metric, last'.shop, last'.year,
                  "year", None) # {}
        /\ Spent(periods, plans, last'.metric, last'.shop, last'.year,
                 last'.month, last'.value)
           > ValueOf(plans, RowsAt(periods, plans, last'.metric, last'.shop,
                                   last'.year, "year", None))) =>
        \A k \in (last'.month + 1)..12 :
            \A i \in RowsAt(periods', plans', last'.metric, last'.shop,
                            last'.year, "month", k) :
                plans'[i].value = 0]_vars


C9_SeventeenDistinctRows ==
    DistributeDone =>
        LET r == last.ret
            per(s) == periods[r[s].period]
        IN  /\ Len(r) = 17
            /\ \A s, t \in 1..17 : r[s].id = r[t].id => s = t
            /\ per(1).year = last.year
            /\ per(1).quarter = None /\ per(1).month = None
            /\ r[1].value = last.value
            /\ plans[r[1].id].value = last.value
            /\ \A q \in 1..4 :
                /\ per(4 * q - 2).year = last.year
                /\ per(4 * q - 2).quarter = q
                /\ per(4 * q - 2).month = None
                /\ \A i \in 1..3 :
                    /\ per(4 * q - 2 + i).year = last.year
                    /\ per(4 * q - 2 + i).month = 3 * (q - 1) + i

\* The request names a quarter and month that agree: no month, or a month
\* with its calendar quarter.
ConsistentRequest(quarter, month) ==
    /\ quarter \in {None} \cup 1..4
    /\ month \in {None} \cup 1..12
    /\ month # None => quarter = ((month - 1) \div 3) + 1

\* C10: get_or_create_by_params(year, quarter, month), for a consistent
\* request, returns a period whose (year, quarter, month) is the requested
\* triple, and a repeated call creates nothing.
C10_ResolveReturnsRequested ==
    (/\ last.op = "resolve" /\ ~last.raised
     /\ ConsistentRequest(last.quarter, last.month)) =>
        /\ last.pid \in 1..Len(periods)
        /\ periods[last.pid].year = last.year
        /\ periods[last.pid].quarter = last.quarter
        /\ periods[last.pid].month = last.month
        /\ last.repeat => ~last.created

\* C11: in every reachable state every period with a month has a quarter,
\* and that quarter is the month's calendar quarter ((month - 1) div 3) + 1.
C11_MonthHasItsQuarter ==
    \A i \in 1..Len(periods) :
        periods[i].month # None =>
            /\ periods[i].quarter # None
            /\ periods[i].quarter = ((periods[i].month - 1) \div 3) + 1

\* (metric, shop, year) has all 17 plan rows: exactly one at the year, at
\* each quarter and at each month.
AllSeventeen(ps, pl, metric, shop, year) ==
    /\ Cardinality(RowsAt(ps, pl, metric, shop, year, "year", None)) = 1
    /\ \A q \in 1..4 :
        Cardinality(RowsAt(ps, pl, metric, shop, year, "quarter", q)) = 1
    /\ \A k \in 1..12 :
        Cardinality(RowsAt(ps, pl, metric, shop, year, "month", k)) = 1

\* C12: recalculate_plan_with_actual at month 12, all 17 plan rows existing,
\* sets the month-12 plan to the actual value, sets the quarter-4 plan to the
\* sum of the plans of months 10, 11 and 12, and changes no other plan row.
C12_DecemberTouchesOnlyQuarterFour ==
    [][(/\ ops' = ops + 1
        /\ last'.op = "recalculate" /\ ~last'.raised
        /\ last'.month = 12
        /\ AllSeventeen(periods, plans, last'.metric, last'.shop,
                        last'.year)) =>
        LET row(kind, n) ==
                CHOOSE i \in RowsAt(periods, plans, last'.metric, last'.shop,
                                    last'.year, kind, n) : TRUE
            m12 == row("month", 12)
            q4 == row("quarter", 4)
        IN  /\ periods' = periods
            /\ Len(plans') = Len(plans)
            /\ plans'[m12].value = last'.value
            /\ plans'[q4].value = plans'[row("month", 10)].value
                                  + plans'[row("month", 11)].value
                                  + plans'[m12].value
            /\ \A i \in 1..Len(plans) :
                i \notin {m12, q4} => plans'[i] = plans[i]]_vars

\* C13: recalculate_plan_with_actual for a (metric, shop, year) without a
\* yearly plan row ends in an error reported to the caller and leaves the
\* plan-value table as it was.
C13_NoYearlyPlanIsAnError ==
    [][(/\ ops' = ops + 1
        /\ last'.op = "recalculate"
        /\ RowsAt(periods, plans, last'.metric, last'.shop, last'.year,
                  "year", None) = {}) =>
        /\ last'.raised
        /\ plans' = plans]_vars

\* The plan rows of (metric, shop, year) are all there and add up: the
\* quarters sum to the yearly plan and each quarter's months sum to it.
SumsConsistent(ps, pl, metric, shop, year) ==
    LET v(kind, n) == ValueOf(pl, RowsAt(ps, pl, metric, shop, year, kind, n))
    IN  /\ AllSeventeen(ps, pl, metric, shop, year)
        /\ v("quarter", 1) + v("quarter", 2) + v("quarter", 3)
           + v("quarter", 4) = v("year", None)
        /\ \A q \in 1..4 :
            v("month", 3 * q - 2) + v("month", 3 * q - 1) + v("month", 3 * q)
                = v("quarter", q)

BothReturned == \A i \in Invocations : inflight.pc[i] = 18

\* C14: two distribute_yearly_plan invocations for one (metric, shop, year)
\* with different yearly values leave sums that do not add up only when their
\* upserts interleaved: whenever both have returned and neither took a step
\* in the middle of the other, the quarters sum to the yearly plan and the
\* months of each quarter sum to the quarter.
C14_SerializedDistributionsAddUp ==
    (BothReturned /\ inflight.switches = 0) =>
        SumsConsistent(periods, plans, RaceMetric, RaceShop, RaceYear)

\* Both invocations have returned after interleaving, and the quarter plans
\* do not sum to the yearly plan.
C14_Witness ==
    /\ BothReturned
    /\ inflight.switches > 0
    /\ AllSeventeen(periods, plans, RaceMetric, RaceShop, RaceYear)
    /\ ~SumsConsistent(periods, plans, RaceMetric, RaceShop, RaceYear)

\* C15: the budget classification reports percentage = total_actual /
\* total_plan * 100 (0 when total_plan is 0) and status "ahead" when the
\* percentage is above 105, "behind" when it is below 95, "on_track"
\* otherwise. Stated for the totals whose percentage is a whole number, so
\* that no rounding is involved.
C15_BudgetStatusThresholds ==
    last.op = "budget" =>
        LET a == last.total_actual
            p == last.total_plan
            exact == (a * 100) \div p
        IN  IF p = 0
            THEN last.percentage = 0
            ELSE (a * 100) % p = 0 =>
                    /\ last.percentage = exact
                    /\ last.status = IF exact > 105 THEN "ahead"
                                     ELSE IF exact < 95 THEN "behind"
                                     ELSE "on_track"

\* C16: prepare_comparison_data raises no division error, and every group
\* (year, quarter, month, category or shop) whose plan sum is 0 reports
\* percentage 0, whatever its actual sum is.
C16_ZeroPlanGivesZeroPercentage ==
    last.op = "compare" =>
        /\ ~last.raised
        /\ \A e \in CompareEntries(last.comparison) :
            e.plan = 0 => e.percentage = 0

\* A comparison in which a group with actual spending has a plan sum of 0
\* made of plan rows (not of their absence), next to a group with a plan
\* whose percentage is not 0.
C16_Witness ==
    /\ last.op = "compare"
    /\ ~last.raised
    /\ Len(last.plan_values) > 1
    /\ last.comparison.monthly[2024][1].plan = 0
    /\ last.comparison.monthly[2024][1].actual > 0
    /\ last.comparison.monthly[2024][1].percentage = 0
    /\ \E c3 \in 1..Len(last.plan_values) : last.plan_values[c3].period = 3
    /\ last.comparison.shops[2].actual > 0
    /\ last.comparison.shops[2].percentage = 0
    /\ last.comparison.quarterly[2024][1].percentage > 0

(* --------------------------- trend engine ----------------------------- *)

\* The series is c + d * i over i = 0..n-1 for its first point c and first
\* step d.
IsLinear(series) ==
    \A i \in 1..Len(series) :
        series[i] = series[1] + (series[2] - series[1]) * (i - 1)

\* C17: for an exactly linear series y_i = c + d*i of two or more points
\* the regression returns slope d, intercept c and forecast c + d*n.
C17_LinearSeriesRegression ==
    (last.op = "regression" /\ Len(last.series) >= 2
        /\ IsLinear(last.series))
    => LET c == last.series[1]
           d == last.series[2] - last.series[1]
       IN  last.regression =
            [slope |-> Rat(d, 1), intercept |-> Rat(c, 1),
             forecast |-> Rat(c + d * Len(last.series), 1)]

\* [1,2,3,4,5] gives slope 1, intercept 1, forecast 6.
C17_Witness ==
    /\ last.op = "regression"
    /\ last.series = <<1, 2, 3, 4, 5>>
    /\ last.regression = [slope |-> Rat(1, 1), intercept |-> Rat(1, 1),
                          forecast |-> Rat(6, 1)]

\* A series with no point, one point, or zeros only.
Degenerate(series) ==
    Len(series) <= 1 \/ \A i \in 1..Len(series) : series[i] = 0

\* The last evaluation was handed degenerate series only.
DegenerateCall ==
    \/ last.op = "helpers" /\ Degenerate(last.series)
    \/ /\ last.op = "trendStats"
       /\ Degenerate(last.stats.points.yearly)
       /\ Degenerate(last.stats.points.quarterly)
       /\ Degenerate(last.stats.points.monthly)

\* Every statistic the helpers returned, the confidence aside, is 0.
ZeroedHelpers ==
    /\ last.mean = Rat(0, 1)
    /\ last.std.sqrt = Rat(0, 1)
    /\ last.volatility.sqrt = Rat(0, 1)
    /\ last.regression = [slope |-> Rat(0, 1), intercept |-> Rat(0, 1),
                          forecast |-> Rat(0, 1)]
    /\ last.extended = [median |-> 0, q25 |-> 0, q75 |-> 0, iqr |-> 0,
                        r2 |-> 0, cagr |-> [base |-> Rat(1, 1), root |-> 1],
                        maxDrawdown |-> 0, count |-> 0, nonZeroShare |-> 0]

\* C18 as stated: the trend engine never raises for an empty, single-point
\* or all-zero series, and for an empty series every statistic it reports
\* is 0.
C18_EmptySeriesAllZero ==
    /\ DegenerateCall => ~ last.raised
    /\ (last.op = "helpers" /\ last.series = <<>>)
        => (ZeroedHelpers /\ last.confidence = Rat(0, 1))
    /\ last.op = "trendStats" =>
        \A g \in {"yearly", "quarterly", "monthly"} :
            (last.stats.points[g] = <<>> /\ last.stats[g].reported)
            => last.stats[g].confidence = Rat(0, 1)

\* C18 as the code has it: the trend engine never raises for an empty,
\* single-point or all-zero series; for an empty series the helpers return
\* 0 for every statistic except the confidence, which is 0.95, and
\* prepare_trends_statistics reports no statistic at all.
C18_EmptySeriesNeutral ==
    /\ DegenerateCall => ~ last.raised
    /\ (last.op = "helpers" /\ last.series = <<>>)
        => (ZeroedHelpers /\ last.confidence = Rat(95, 100))
    /\ last.op = "trendStats" =>
        \A g \in {"yearly", "quarterly", "monthly"} :
            last.stats.points[g] = <<>> => last.stats[g] = NoStats

\* The helpers ran on the empty series and returned.
C18_Witness ==
    /\ last.op = "helpers"
    /\ last.series = <<>>
    /\ ~ last.raised
    /\ last.confidence = Rat(95, 100)

\* C19: whenever monthly trend statistics are produced, the seasonality
\* vector has exactly 12 entries, whatever the selected years and the month
\* range.
C19_SeasonalityHasTwelveEntries ==
    (last.op = "trendStats" /\ last.stats.monthly.reported)
    => DOMAIN last.stats.monthly.seasonality = 1..12

\* Monthly statistics of two years over the months 4..6 came with twelve
\* seasonality entries.
C19_Witness ==
    /\ last.op = "trendStats"
    /\ last.years = TrendYears
    /\ last.month_start = 4
    /\ last.month_end = 6
    /\ Len(last.stats.points.monthly) = 6
    /\ last.stats.monthly.reported
    /\ DOMAIN last.stats.monthly.seasonality = 1..12

(* -------------------------- redistribution ---------------------------- *)

\* max(0, Y - spent) for the call recorded in last', over the plans before
\* the call.
RemainderBefore ==
    LET Y == ValueOf(plans, RowsAt(periods, plans, last'.metric, last'.shop,
                                   last'.year, "year", None))
        spent == Spent(periods, plans, last'.metric, last'.shop, last'.year,
                       last'.month, last'.value)
    IN  IF Y - spent < 0 THEN 0 ELSE Y - spent

\* C20: after recalculate_plan_with_actual(m, a) with m < 12, all 17 plan
\* rows existing, every month m+1..11 holds per_month =
\* round(remainder / (12 - m), 2) and month 12 holds
\* remainder - per_month * (12 - m - 1), where remainder = max(0, Y - spent).
\* Stated for a call that follows nothing but distribute_yearly_plan and
\* recalculate_plan_with_actual calls.
C20_FutureMonthsShareRemainder ==
    [][(/\ engineOnly' /\ last'.op = "recalculate" /\ ~last'.raised
        /\ ops' = ops + 1
        /\ last'.month < 12
        /\ AllSeventeen(periods, plans, last'.metric, last'.shop,
                        last'.year)) =>
        LET n == 12 - last'.month
            per_month == RoundDiv(RemainderBefore, n)
        IN  \A k \in (last'.month + 1)..12 :
                ValueOf(plans', RowsAt(periods', plans', last'.metric,
                                       last'.shop, last'.year, "month", k))
                = IF k < 12 THEN per_month
                  ELSE RemainderBefore - per_month * (n - 1)]_vars

(* ------------------------ recalculation results ----------------------- *)

\* The plan value stored at a period kind of (metric, shop, year).
PlanAt(ps, pl, metric, shop, year, kind, n) ==
    ValueOf(pl, RowsAt(ps, pl, metric, shop, year, kind, n))

\* C21: after recalculate_plan_with_actual completes on a fully distributed
\* plan (all 17 rows), each quarter's plan equals the sum of the three month
\* plans stored for that quarter after the call.
C21_QuartersSumTheirMonths ==
    [][(/\ engineOnly' /\ last'.op = "recalculate" /\ ~last'.raised
        /\ ops' = ops + 1
        /\ AllSeventeen(periods, plans, last'.metric, last'.shop,
                        last'.year)) =>
        \A q \in 1..4 :
            PlanAt(periods', plans', last'.metric, last'.shop, last'.year,
                   "quarter", q)
            = SumOver(((q - 1) * 3 + 1)..(q * 3),
                      [k \in 1..12 |->
                        PlanAt(periods', plans', last'.metric, last'.shop,
                               last'.year, "month", k)])]_vars

\* The sum of the twelve month plans stored for (metric, shop, year).
MonthPlansSum(ps, pl, metric, shop, year) ==
    SumOver(1..12, [k \in 1..12 |-> PlanAt(ps, pl, metric, shop, year, "month", k)])

\* C22: a recalculation for month 1 that directly follows the distribution of
\* Y, with an actual value not above Y, leaves the twelve month plans summing
\* exactly to the yearly plan (first call of the sequence of months 1, 2, ...).
C22_MonthsSumToYearAfterActuals ==
    [][(/\ engineOnly' /\ last.op = "distribute" /\ ~last.raised
        /\ last'.op = "recalculate" /\ ~last'.raised /\ ops' = ops + 1
        /\ last'.metric = last.metric /\ last'.shop = last.shop
        /\ last'.year = last.year
        /\ last'.month = 1 /\ last'.value <= last.value
        /\ AllSeventeen(periods, plans, last.metric, last.shop, last.year)) =>
        MonthPlansSum(periods', plans', last'.metric, last'.shop, last'.year)
        = PlanAt(periods', plans', last'.metric, last'.shop, last'.year,
                 "year", 0)]_vars

\* actual_sum / plan_sum * 100 rounded to two places for a plan sum of
\* either sign.
ExpectedPercent(actual_sum, plan_sum) ==
    IF plan_sum > 0 THEN RoundDiv(actual_sum * 10000, plan_sum)
    ELSE RoundDiv((0 - actual_sum) * 10000, 0 - plan_sum)

\* C23: every comparison group whose plan sum is not zero, positive or
\* negative, reports deviation = actual - plan and
\* percentage = actual / plan * 100 rounded to two places.
C23_NonzeroPlanGivesPercentage ==
    last.op = "compare" =>
        \A e \in CompareEntries(last.comparison) :
            e.plan # 0 =>
                /\ e.deviation = e.actual - e.plan
                /\ e.percentage = ExpectedPercent(e.actual, e.plan)

\* C24: the remaining budget reported is max(0, total_plan - total_actual):
\* never negative, and 0 once total_actual reaches total_plan.
C24_RemainingBudgetNeverNegative ==
    last.op = "budget" =>
        /\ last.remaining_budget >= 0
        /\ last.remaining_budget
           = (IF last.total_plan - last.total_actual > 0
              THEN last.total_plan - last.total_actual ELSE 0)

\* The plan rows a recalculation for (metric, shop, year, m) may write:
\* month m, the later months, the quarters and the year of the same key.
MayBeWritten(ps, pl, i, metric, shop, year, m) ==
    /\ pl[i].metric = metric
    /\ pl[i].shop = shop
    /\ pl[i].period \in 1..Len(ps)
    /\ ps[pl[i].period].year = year
    /\ \/ ps[pl[i].period].month = None
       \/ ps[pl[i].period].month >= m

\* C25: recalculate_plan_with_actual(metric, shop, year, m, a) changes no plan
\* row of a month before m and none of another metric, shop or year: every
\* row it changes is month m, a later month, a quarter or the year of the
\* same (metric, shop, year); it adds and removes no row.
C25_RecalculateWritesOnlyItsRows ==
    [][(last'.op = "recalculate" /\ ops' = ops + 1) =>
        /\ Len(plans') = Len(plans)
        /\ \A i \in 1..Len(plans) :
            plans'[i] # plans[i] =>
                MayBeWritten(periods, plans, i, last'.metric, last'.shop,
                             last'.year, last'.month)]_vars

(* ---------------------- keeping the yearly total ---------------------- *)

\* The plan rows of year periods (no quarter, no month).
YearlyRows(ps, pl) ==
    {i \in 1..Len(pl) :
        /\ pl[i].period \in 1..Len(ps)
        /\ ps[pl[i].period].quarter = None
        /\ ps[pl[i].period].month = None}

C28_RecalculateIsIdempotent ==
    [][(/\ last'.op = "recalculate" /\ ~last'.raised /\ ops' = ops + 1
        /\ last'.repeat
        /\ last'.current_month = last.current_month
        /\ AllSeventeen(periods, plans, last'.metric, last'.shop,
                        last'.year)) =>
        plans' = plans]_vars

(* ---------------------- the date of a recalculation ------------------- *)

\* C29: recalculate_plan_with_actual depends on its arguments and the store
\* only: run from one store state with the same (metric, shop, year, m, a) in
\* two different months of the wall clock, it writes the same values to the
\* same plan rows and leaves the same store.
C29_RecalculateIgnoresTheDate ==
    \A metric \in Metrics, shop \in Shops, year \in Years,
       m \in ActualMonths, a \in ActualValues,
       cm1 \in CurrentMonths, cm2 \in CurrentMonths :
        LET r1 == RecalculatePlanWithActual(periods, plans, metric, shop,
                                            year, m, a, cm1, None)
            r2 == RecalculatePlanWithActual(periods, plans, metric, shop,
                                            year, m, a, cm2, None)
        IN  /\ r1.plans = r2.plans
            /\ r1.ret = r2.ret

(* ---------------------- comparison granularity ------------------------ *)

\* The store holds the 17 rows of one distributed plan and nothing else.
OnePlanDistributed(metric, shop, year) ==
    /\ AllSeventeen(periods, plans, metric, shop, year)
    /\ Len(plans) = 17

\* C30: comparing a store that holds one distributed plan, the yearly group
\* reports the yearly plan value and each quarterly group Qk the plan value
\* of quarter k: no row is counted at more than one granularity.
C30_GroupsCountTheirOwnRows ==
    \A metric \in Metrics, shop \in Shops, year \in Years :
        (last.op = "compare_store" /\ OnePlanDistributed(metric, shop, year)) =>
            /\ last.comparison.yearly[year].plan
               = PlanAt(periods, plans, metric, shop, year, "year", 0)
            /\ \A k \in 1..4 :
                last.comparison.quarterly[year][k].plan
                = PlanAt(periods, plans, metric, shop, year, "quarter", k)


====
